---- MODULE Spec2Model ----
(***************************************************************************)
(* Model of the luhn-rs library (src/src/lib.rs): the input validator      *)
(* handle_errors, the checksum engine generate_checksum, and the public    *)
(* functions generate, validate and random.                                *)
(*                                                                         *)
(* A Rust &str / String is a sequence of one-character strings.  A         *)
(* Result<T, LuhnError> is a record: [tag |-> "Ok", val |-> v] or          *)
(* [tag |-> "Err", err |-> variant, msg |-> carried message].              *)
(* A usize is held as its canonical decimal digits (most significant       *)
(* first, no leading zeros, zero is the empty sequence), so that the       *)
(* 64-bit overflow of str::parse can be decided exactly.                   *)
(*                                                                         *)
(* Every character of the model is one byte long, so str::len and          *)
(* str::split_at count characters; a string with a longer character is     *)
(* rejected by handle_errors (NonNumeric at the latest) before either is   *)
(* used.  The u32 sum of generate_checksum cannot overflow for the string  *)
(* lengths explored (each digit adds at most 9).                           *)
(***************************************************************************)
EXTENDS Integers, Sequences, FiniteSets, TLC

VARIABLES
    op,             \* the public function called: "idle", "generate", "validate", "random"
    value,          \* the &str argument of that call
    options,        \* generate's Option<GenerateOptions>
    result,         \* what the call returned (Pending while random is looping)
    candidate,      \* the string handed to the follow-up validate call
    recheck,        \* the result of the follow-up validate call
    pc,             \* random's position: "none", "loop", "draw", "done"
    length_as_int,  \* random's local length_as_int (a usize)
    random_buf,     \* random's local String `random`
    iterations,     \* how many times random's loop body was entered
    rng             \* the digits the random source can yield in this call

vars == <<op, value, options, result, candidate, recheck, pc, length_as_int,
          random_buf, iterations, rng>>

-----------------------------------------------------------------------------
(* Bounds of the exploration *)

\* longest argument string enumerated over the whole alphabet
MaxLen == 3
\* longest payload (n - 1) for which every digit draw is enumerated
MaxDraws == 3
\* cap on the loop iterations of random that are followed
MaxIter == 2

-----------------------------------------------------------------------------
(* Characters and strings *)

DigitChars == <<"0", "1", "2", "3", "4", "5", "6", "7", "8", "9">>

DigitCharSet == {DigitChars[i] : i \in 1..10}

\* ' ', '-', '.' are the characters handle_errors names; "a" stands for any
\* other character that is not an ASCII digit
Chars == DigitCharSet \cup {" ", "-", ".", "a"}

\* char::is_ascii_digit
is_ascii_digit(c) == c \in DigitCharSet

\* char::to_digit(10).unwrap() on an ASCII digit
to_digit(c) == CHOOSE d \in 0..9 : DigitChars[d + 1] = c

\* char::from_digit(d, 10).unwrap() for d in 0..9
from_digit(d) == DigitChars[d + 1]

\* str::contains(char)
contains(s, c) == \E i \in 1..Len(s) : s[i] = c

RECURSIVE rev(_)
\* Iterator::rev over the characters
rev(s) == IF s = <<>> THEN <<>> ELSE Append(rev(Tail(s)), Head(s))

RECURSIVE u8_to_string(_)
\* u8::to_string / "{}" of a u8: decimal, no padding
u8_to_string(n) ==
    IF n < 10 THEN <<from_digit(n)>>
    ELSE Append(u8_to_string(n \div 10), from_digit(n % 10))

-----------------------------------------------------------------------------
(* Result values *)

Ok(v) == [tag |-> "Ok", val |-> v]

Err(e, m) == [tag |-> "Err", err |-> e, msg |-> m]

Unit == <<>>

Pending == [tag |-> "Pending"]

OptNone == "None"
OptChecksumOnly == "Some(checksum_only: true)"
OptFull == "Some(checksum_only: false)"
OptionValues == {OptNone, OptChecksumOnly, OptFull}

-----------------------------------------------------------------------------
(* handle_errors, lines 76-98 *)

\* faulty variant: the scan for a character that is no digit runs before the
\* checks for ' ', '-' and '.'
handle_errors_scan_first(v) ==
    IF Len(v) = 0 THEN Err("EmptyString", "")
    ELSE IF ~(\A i \in 1..Len(v) : is_ascii_digit(v[i])) THEN Err("NonNumeric", "")
    ELSE IF contains(v, " ") THEN Err("ContainsSpaces", "")
    ELSE IF contains(v, "-") THEN Err("NegativeNumber", "")
    ELSE IF contains(v, ".") THEN Err("FloatingPoint", "")
    ELSE Ok(Unit)

handle_errors(v) ==
    IF Len(v) = 0 THEN Err("EmptyString", "")
    ELSE IF contains(v, " ") THEN Err("ContainsSpaces", "")
    ELSE IF contains(v, "-") THEN Err("NegativeNumber", "")
    ELSE IF contains(v, ".") THEN Err("FloatingPoint", "")
    ELSE IF ~(\A i \in 1..Len(v) : is_ascii_digit(v[i])) THEN Err("NonNumeric", "")
    ELSE Ok(Unit)

-----------------------------------------------------------------------------
(* generate_checksum, lines 110-133 *)

\* faulty variant: a doubled value of 10 or more loses its tens digit
fold_step_units(acc, digit, double) ==
    IF double
    THEN LET temp == digit * 2
         IN  IF temp >= 10 THEN acc + (temp % 10) ELSE acc + temp
    ELSE acc + digit

\* the fold closure: one digit added to the running sum
fold_step(acc, digit, double) ==
    IF double
    THEN LET temp == digit * 2
         IN  IF temp >= 10 THEN acc + ((temp \div 10) + (temp % 10)) ELSE acc + temp
    ELSE acc + digit

RECURSIVE fold(_, _, _)
\* the fold over the reversed digits; `double` is the captured flag, flipped
\* after every digit
fold(cs, acc, double) ==
    IF cs = <<>> THEN acc
    ELSE fold(Tail(cs), fold_step(acc, to_digit(Head(cs)), double), ~double)

\* faulty variant: the rightmost digit is not doubled, the flag starts false
generate_checksum_undoubled(v) ==
    LET sum == fold(rev(v), 0, FALSE)
    IN  ((10 - (sum % 10)) % 10) % 256

generate_checksum(v) ==
    LET sum == fold(rev(v), 0, TRUE)
    IN  ((10 - (sum % 10)) % 10) % 256

-----------------------------------------------------------------------------
(* generate, lines 167-176 *)

\* faulty variant: any Some(options) gives the checksum alone, the flag is
\* not read
generate_any_options(v, opts) ==
    LET checked == handle_errors(v)
    IN  IF checked.tag = "Err" THEN checked
        ELSE LET checksum == generate_checksum(v)
             IN  IF opts # OptNone
                 THEN Ok(u8_to_string(checksum))
                 ELSE Ok(v \o u8_to_string(checksum))

generate(v, opts) ==
    LET checked == handle_errors(v)
    IN  IF checked.tag = "Err" THEN checked
        ELSE LET checksum == generate_checksum(v)
             IN  IF opts = OptChecksumOnly
                 THEN Ok(u8_to_string(checksum))
                 ELSE Ok(v \o u8_to_string(checksum))

-----------------------------------------------------------------------------
(* validate, lines 204-215 *)

\* faulty variant: the split is one character early
split_at_front_early(v, mid) == SubSeq(v, 1, mid - 1)

\* str::split_at(mid).0
split_at_front(v, mid) == SubSeq(v, 1, mid)

\* faulty variant: the argument is compared with the check digit alone
validate_checksum_only(v) ==
    LET checked == handle_errors(v)
    IN  IF checked.tag = "Err" THEN checked
        ELSE IF Len(v) = 1
        THEN Err("InvalidLength", "string must be longer than 1 character")
        ELSE LET value_without_checksum == split_at_front(v, Len(v) - 1)
                 generated == generate(value_without_checksum, OptChecksumOnly)
             IN  IF generated.tag = "Err" THEN generated
                 ELSE Ok(v = generated.val)

\* faulty variant: the length check runs before the input validator
validate_length_first(v) ==
    IF Len(v) = 1
    THEN Err("InvalidLength", "string must be longer than 1 character")
    ELSE LET checked == handle_errors(v)
         IN  IF checked.tag = "Err" THEN checked
             ELSE LET value_without_checksum == split_at_front(v, Len(v) - 1)
                      generated == generate(value_without_checksum, OptNone)
                  IN  IF generated.tag = "Err" THEN generated
                      ELSE Ok(v = generated.val)

validate(v) ==
    LET checked == handle_errors(v)
    IN  IF checked.tag = "Err" THEN checked
        ELSE IF Len(v) = 1
        THEN Err("InvalidLength", "string must be longer than 1 character")
        ELSE LET value_without_checksum == split_at_front(v, Len(v) - 1)
                 generated == generate(value_without_checksum, OptNone)
             IN  IF generated.tag = "Err" THEN generated
                 ELSE Ok(v = generated.val)

-----------------------------------------------------------------------------
(* usize and str::parse::<usize>, line 245-247 *)

\* usize::MAX of a 64-bit target, 18446744073709551615
UsizeMax == <<1, 8, 4, 4, 6, 7, 4, 4, 0, 7, 3, 7, 0, 9, 5, 5, 1, 6, 1, 5>>

RECURSIVE lex_gt(_, _)
\* a > b for digit sequences of the same length
lex_gt(a, b) ==
    IF a = <<>> THEN FALSE
    ELSE IF Head(a) # Head(b) THEN Head(a) > Head(b)
    ELSE lex_gt(Tail(a), Tail(b))

\* a > b for two usize values
usize_gt(a, b) == Len(a) > Len(b) \/ (Len(a) = Len(b) /\ lex_gt(a, b))

\* a < b for two usize values
usize_lt(a, b) == usize_gt(b, a)

\* acc * 10 + d
mul10_add(acc, d) == IF acc = <<>> /\ d = 0 THEN <<>> ELSE Append(acc, d)

RECURSIVE usize_to_nat(_)
\* the number a small usize holds
usize_to_nat(n) ==
    IF n = <<>> THEN 0 ELSE usize_to_nat(SubSeq(n, 1, Len(n) - 1)) * 10 + n[Len(n)]

RECURSIVE parse_from(_, _)
\* the digit loop of parse: checked multiply and add, an error on a character
\* that is no digit and on overflow
parse_from(cs, acc) ==
    IF cs = <<>> THEN Ok(acc)
    ELSE IF ~is_ascii_digit(Head(cs)) THEN Err("InvalidDigit", "")
    ELSE LET next == mul10_add(acc, to_digit(Head(cs)))
         IN  IF usize_gt(next, UsizeMax) THEN Err("PosOverflow", "")
             ELSE parse_from(Tail(cs), next)

\* length.parse::<usize>()
parse_usize(s) == IF s = <<>> THEN Err("Empty", "") ELSE parse_from(s, <<>>)

-----------------------------------------------------------------------------
(* random, lines 242-281 *)

\* the literals 100 and 2 of the range checks
Hundred == <<1, 0, 0>>
Two == <<2>>

\* faulty variant: the lower range check is `< 1`
random_prologue_min1(length) ==
    LET checked == handle_errors(length)
    IN  IF checked.tag = "Err" THEN checked
        ELSE LET parsed == parse_usize(length)
             IN  IF parsed.tag = "Err"
                 THEN Err("ParseError", "failed to parse length")
                 ELSE IF usize_gt(parsed.val, Hundred)
                 THEN Err("InvalidLength", "string must be less than 100 characters")
                 ELSE IF usize_lt(parsed.val, <<1>>)
                 THEN Err("InvalidLength", "string must be greater than 1")
                 ELSE Ok(parsed.val)

\* what random does before its loop: Err(e) when it returns early, Ok(n)
\* with the parsed length when it goes on to the loop
random_prologue(length) ==
    LET checked == handle_errors(length)
    IN  IF checked.tag = "Err" THEN checked
        ELSE LET parsed == parse_usize(length)
             IN  IF parsed.tag = "Err"
                 THEN Err("ParseError", "failed to parse length")
                 ELSE IF usize_gt(parsed.val, Hundred)
                 THEN Err("InvalidLength", "string must be less than 100 characters")
                 ELSE IF usize_lt(parsed.val, Two)
                 THEN Err("InvalidLength", "string must be greater than 1")
                 ELSE Ok(parsed.val)

\* faulty variant: the for loop runs over 0..length_as_int
draw_count_full(n) == usize_to_nat(n)

\* the number of digits the for loop pushes: 0..(length_as_int - 1)
draw_count(n) == usize_to_nat(n) - 1

\* Result::unwrap_or
unwrap_or(r, default) == IF r.tag = "Ok" THEN r.val ELSE default

\* faulty variant: the payload, not the generated number, is validated
loop_check_payload(buf) ==
    LET generated == generate(buf, OptNone)
    IN  IF generated.tag = "Ok" /\ unwrap_or(validate(buf), FALSE)
        THEN Ok(generated.val)
        ELSE Pending

\* the if-let at the end of the loop body: Ok(result) when random returns,
\* Pending when the loop goes round again
loop_check(buf) ==
    LET generated == generate(buf, OptNone)
    IN  IF generated.tag = "Ok" /\ unwrap_or(validate(generated.val), FALSE)
        THEN Ok(generated.val)
        ELSE Pending

-----------------------------------------------------------------------------
(* The arguments the calls are made with *)

\* the string of a sequence of digits
Str(ds) == [i \in 1..Len(ds) |-> from_digit(ds[i])]

\* n zeros
Zeros(n) == [i \in 1..n |-> 0]

\* every string of at most MaxLen characters
ShortStrings == UNION {[1..n -> Chars] : n \in 0..MaxLen}

\* the longer digit strings of the crate's tests and benchmarks
TestVectors ==
    { Str(<<7, 9, 9, 2, 7, 3, 9, 8, 7, 1>>),
      Str(<<7, 9, 9, 2, 7, 3, 9, 8, 7, 1, 3>>),
      Str(<<7, 9, 9, 2, 7, 3, 9, 8, 7, 1, 4>>),
      Str(<<1, 2, 3, 4, 5, 6, 7, 8, 9>>),
      Str(<<1, 2, 3, 4, 5, 6, 7, 8, 9, 7>>),
      Str(<<0, 0, 1, 2, 3>>),
      Str(<<0, 0, 1, 2, 3, 0>>),
      Str(<<1, 2, 3, 4, 5, 6, 7, 8, 9, 0, 1, 2, 3, 4, 5, 6, 7, 8, 9, 0>>) }

\* long length specs: usize::MAX, usize::MAX + 1, twenty-one nines, and
\* small values behind more than twenty leading zeros
LongSpecs ==
    { Str(UsizeMax),
      Str(<<1, 8, 4, 4, 6, 7, 4, 4, 0, 7, 3, 7, 0, 9, 5, 5, 1, 6, 1, 6>>),
      Str([i \in 1..21 |-> 9]),
      Str(Zeros(22) \o <<1>>),
      Str(Zeros(22) \o <<4>>),
      Str(Zeros(21) \o <<1, 0, 0>>),
      Str(Zeros(21) \o <<1, 0, 1>>) }

Inputs == ShortStrings \cup TestVectors

LengthSpecs == ShortStrings \cup LongSpecs

\* the random source of one call: every digit at each draw when the payload
\* is at most MaxDraws long, for a longer payload one digit repeated
Sources(n) ==
    IF draw_count(n) <= MaxDraws THEN {0..9} ELSE {{d} : d \in 0..9}

-----------------------------------------------------------------------------
(* The state machine: one call from idle, then its steps *)

Init ==
    /\ op = "idle"
    /\ value = <<>>
    /\ options = OptNone
    /\ result = Pending
    /\ candidate = <<>>
    /\ recheck = Pending
    /\ pc = "none"
    /\ length_as_int = <<>>
    /\ random_buf = <<>>
    /\ iterations = 0
    /\ rng = {}

\* a call of generate(v, o)
CallGenerate ==
    /\ op = "idle"
    /\ \E v \in Inputs, o \in OptionValues :
        /\ value' = v
        /\ options' = o
        /\ result' = generate(v, o)
    /\ op' = "generate"
    /\ UNCHANGED <<candidate, recheck, pc, length_as_int, random_buf, iterations, rng>>

\* a call of validate(v)
CallValidate ==
    /\ op = "idle"
    /\ \E v \in Inputs :
        /\ value' = v
        /\ result' = validate(v)
    /\ op' = "validate"
    /\ UNCHANGED <<options, candidate, recheck, pc, length_as_int, random_buf,
                   iterations, rng>>

\* a call of random(v), up to the first entry of its loop
CallRandom ==
    /\ op = "idle"
    /\ op' = "random"
    /\ \E v \in LengthSpecs :
        LET before == random_prologue(v)
        IN  /\ value' = v
            /\ IF before.tag = "Err"
               THEN /\ result' = before
                    /\ pc' = "done"
                    /\ UNCHANGED <<length_as_int, rng>>
               ELSE /\ result' = Pending
                    /\ pc' = "loop"
                    /\ length_as_int' = before.val
                    /\ rng' \in Sources(before.val)
    /\ UNCHANGED <<options, candidate, recheck, random_buf, iterations>>

\* the top of random's loop body: random.clear()
RandomLoop ==
    /\ op = "random"
    /\ pc = "loop"
    /\ iterations < MaxIter
    /\ random_buf' = <<>>
    /\ iterations' = iterations + 1
    /\ pc' = "draw"
    /\ UNCHANGED <<op, value, options, result, candidate, recheck, length_as_int, rng>>

\* one round of the for loop: a digit is drawn and pushed
RandomDraw ==
    /\ op = "random"
    /\ pc = "draw"
    /\ Len(random_buf) < draw_count(length_as_int)
    /\ \E d \in rng : random_buf' = Append(random_buf, from_digit(d))
    /\ UNCHANGED <<op, value, options, result, candidate, recheck, pc,
                   length_as_int, iterations, rng>>

\* the end of the loop body: generate, validate, return or go round again
RandomCheck ==
    /\ op = "random"
    /\ pc = "draw"
    /\ Len(random_buf) >= draw_count(length_as_int)
    /\ LET checked == loop_check(random_buf)
       IN  IF checked.tag = "Ok"
           THEN result' = checked /\ pc' = "done"
           ELSE result' = result /\ pc' = "loop"
    /\ UNCHANGED <<op, value, options, candidate, recheck, length_as_int,
                   random_buf, iterations, rng>>

\* the caller hands the string a call returned to validate
Revalidate ==
    /\ op \in {"generate", "random"}
    /\ result.tag = "Ok"
    /\ recheck = Pending
    /\ candidate' = result.val
    /\ recheck' = validate(result.val)
    /\ UNCHANGED <<op, value, options, result, pc, length_as_int, random_buf,
                   iterations, rng>>

Next ==
    \/ CallGenerate
    \/ CallValidate
    \/ CallRandom
    \/ RandomLoop
    \/ RandomDraw
    \/ RandomCheck
    \/ Revalidate

Spec == Init /\ [][Next]_vars

-----------------------------------------------------------------------------
(* What the properties are stated with *)

CharsOf(s) == {s[i] : i \in 1..Len(s)}

\* a well-formed digit string: non-empty, ASCII digits only
WellFormed(s) == s # <<>> /\ CharsOf(s) \subseteq DigitCharSet

\* the error the input validator is to report: that of the first violated
\* check in the order empty, space, '-', '.', non-digit
FirstViolated(s) ==
    CASE s = <<>> -> "EmptyString"
      [] s # <<>> /\ " " \in CharsOf(s) -> "ContainsSpaces"
      [] CharsOf(s) # {} /\ " " \notin CharsOf(s) /\ "-" \in CharsOf(s) -> "NegativeNumber"
      [] CharsOf(s) # {} /\ CharsOf(s) \cap {" ", "-"} = {} /\ "." \in CharsOf(s)
            -> "FloatingPoint"
      [] CharsOf(s) # {} /\ CharsOf(s) \cap {" ", "-", "."} = {}
            /\ ~(CharsOf(s) \subseteq DigitCharSet) -> "NonNumeric"
      [] OTHER -> "none"

DigitAt(s, i) == CHOOSE d \in 0..9 : DigitChars[d + 1] = s[i]

\* a doubled digit, a doubled value of 10 or more replaced by its digit sum
Doubled(d) == IF 2 * d >= 10 THEN 2 * d - 9 ELSE 2 * d

RECURSIVE SumTo(_, _, _)
\* the weighted sum of the first k digits of s; the digit at distance r from
\* the right end is doubled when (r is even) = rightmostDoubled
SumTo(s, k, rightmostDoubled) ==
    IF k = 0 THEN 0
    ELSE SumTo(s, k - 1, rightmostDoubled)
         + (IF (((Len(s) - k) % 2) = 0) = rightmostDoubled
            THEN Doubled(DigitAt(s, k)) ELSE DigitAt(s, k))

WeightedSum(s, rightmostDoubled) == SumTo(s, Len(s), rightmostDoubled)

\* the reference check digit of a well-formed digit string
ReferenceDigit(s) == (10 - (WeightedSum(s, TRUE) % 10)) % 10

\* the index of the first significant (non-zero) digit, Len + 1 when none
FirstSignificant(s) ==
    IF \A i \in 1..Len(s) : s[i] = "0" THEN Len(s) + 1
    ELSE CHOOSE i \in 1..Len(s) : s[i] # "0" /\ \A j \in 1..(i - 1) : s[j] = "0"

\* a well-formed length spec without its leading zeros
Significant(s) == SubSeq(s, FirstSignificant(s), Len(s))

\* the integer value of a length spec is more than 2^64 - 1
ExceedsUsize(s) ==
    LET g == Significant(s)
    IN  \/ Len(g) > 20
        \/ /\ Len(g) = 20
           /\ \E i \in 1..20 : /\ DigitAt(g, i) > UsizeMax[i]
                               /\ \A j \in 1..(i - 1) : DigitAt(g, j) = UsizeMax[j]

RECURSIVE NatOf(_)
\* the integer value of a short digit string
NatOf(g) == IF g = <<>> THEN 0 ELSE 10 * NatOf(SubSeq(g, 1, Len(g) - 1)) + DigitAt(g, Len(g))

\* the integer value of a length spec is more than 100
Above100(s) == Len(Significant(s)) > 3 \/ NatOf(Significant(s)) > 100

\* the integer value of a length spec is less than 2
Below2(s) == Len(Significant(s)) <= 1 /\ NatOf(Significant(s)) < 2

\* the integer value of a length spec is in [2, 100]
InRange(s) == WellFormed(s) /\ ~Above100(s) /\ ~Below2(s)

TooLong == Err("InvalidLength", "string must be less than 100 characters")

TooShort == Err("InvalidLength", "string must be greater than 1")

SingleChar == Err("InvalidLength", "string must be longer than 1 character")

-----------------------------------------------------------------------------
(* The claims *)

\* C1: round trip. generate(d, None) of a well-formed digit string d returns
\* Ok(s), and validate(s) returns Ok(true).
C1_RoundTrip ==
    /\ (op = "generate" /\ options = OptNone /\ WellFormed(value)) => result.tag = "Ok"
    /\ (op = "generate" /\ options = OptNone /\ WellFormed(value) /\ recheck # Pending)
          => recheck = Ok(TRUE)

\* C1 witness: "00123" was generated and the result validated
C1_Witness ==
    /\ op = "generate" /\ options = OptNone
    /\ value = Str(<<0, 0, 1, 2, 3>>)
    /\ candidate = Str(<<0, 0, 1, 2, 3, 0>>)
    /\ recheck = Ok(TRUE)

\* C2: output shape of generate. For a well-formed d, checksum_only = true
\* gives a string of exactly one digit c; None and checksum_only = false both
\* give d followed by that same c, d kept character for character.
C2_OutputShape ==
    (op = "generate" /\ WellFormed(value)) =>
        /\ result.tag = "Ok"
        /\ options = OptChecksumOnly =>
              /\ Len(result.val) = 1
              /\ result.val[1] \in DigitCharSet
        /\ options # OptChecksumOnly =>
              /\ Len(result.val) = Len(value) + 1
              /\ SubSeq(result.val, 1, Len(value)) = value
              /\ result.val[Len(value) + 1] \in DigitCharSet
              /\ generate(value, OptChecksumOnly) = Ok(<<result.val[Len(value) + 1]>>)
              /\ generate(value, OptNone) = generate(value, OptFull)

\* C2 witness: checksum_only = false on a string with a leading zero
C2_Witness ==
    /\ op = "generate" /\ options = OptFull
    /\ value = <<"0", "9", "5">>
    /\ result.tag = "Ok" /\ Len(result.val) = 4

\* C3: input validation order. generate returns the error of the first
\* violated check in the order EmptyString, ContainsSpaces, NegativeNumber,
\* FloatingPoint, NonNumeric, and Ok exactly for a non-empty string of ASCII
\* digits.
C3_ValidationOrder ==
    op = "generate" =>
        /\ FirstViolated(value) # "none" => result = Err(FirstViolated(value), "")
        /\ result.tag = "Ok" <=> WellFormed(value)

\* C3 witness: a string with a letter and then a space yields ContainsSpaces
C3_Witness ==
    /\ op = "generate"
    /\ value = <<"a", ".", " ">>
    /\ result = Err("ContainsSpaces", "")

\* C4: validate decides by comparison with the regenerated number. For a
\* well-formed payload p and a digit c, validate(p c) is Ok(b) with b true
\* exactly when c is generate(p, checksum_only = true); exactly one of the
\* ten candidates p0 .. p9 validates.
C4_ValidateDecides ==
    (op = "validate" /\ WellFormed(value) /\ Len(value) >= 2) =>
        LET p == SubSeq(value, 1, Len(value) - 1)
            c == value[Len(value)]
        IN  /\ result.tag = "Ok"
            /\ result.val <=> (generate(p, OptChecksumOnly) = Ok(<<c>>))
            /\ Cardinality({x \in DigitCharSet : validate(Append(p, x)) = Ok(TRUE)}) = 1

\* C4 witness: a wrong check digit is told apart
C4_Witness ==
    /\ op = "validate"
    /\ value = Str(<<7, 9, 9, 2, 7, 3, 9, 8, 7, 1, 4>>)
    /\ result = Ok(FALSE)

\* C5: random success. For a well-formed length spec of value n in [2, 100]
\* random returns no error, and every string it returns has length n, holds
\* digits only and validates.
C5_RandomSuccess ==
    (op = "random" /\ InRange(value)) =>
        /\ result.tag # "Err"
        /\ result.tag = "Ok" =>
              /\ Len(result.val) = NatOf(Significant(value))
              /\ CharsOf(result.val) \subseteq DigitCharSet
        /\ recheck # Pending => recheck = Ok(TRUE)

\* C5 witness: a string of 100 digits was returned for "100" and validated
C5_Witness ==
    /\ op = "random"
    /\ value = <<"1", "0", "0">>
    /\ result.tag = "Ok" /\ Len(result.val) = 100
    /\ recheck = Ok(TRUE)

\* C6 as claimed: for every well-formed length spec of value outside [2, 100]
\* random fails with InvalidLength: more than 100 gives "string must be less
\* than 100 characters", less than 2 gives "string must be greater than 1";
\* a spec the validator rejects gives the validator's error.
C6_AsClaimed ==
    op = "random" =>
        /\ FirstViolated(value) # "none" => result = Err(FirstViolated(value), "")
        /\ (WellFormed(value) /\ Above100(value)) => result = TooLong
        /\ (WellFormed(value) /\ Below2(value)) => result = TooShort

\* C6 amended: the same for every well-formed length spec whose value fits a
\* usize (at most 2^64 - 1); a well-formed spec of a larger value fails with
\* ParseError("failed to parse length").
C6_RangeErrors ==
    op = "random" =>
        /\ FirstViolated(value) # "none" => result = Err(FirstViolated(value), "")
        /\ (WellFormed(value) /\ Above100(value) /\ ~ExceedsUsize(value))
              => result = TooLong
        /\ (WellFormed(value) /\ Below2(value)) => result = TooShort
        /\ (WellFormed(value) /\ ExceedsUsize(value))
              => result = Err("ParseError", "failed to parse length")

\* C6 witness: usize::MAX itself is parsed and found too long
C6_Witness ==
    /\ op = "random"
    /\ value = Str(UsizeMax)
    /\ result = TooLong
    /\ pc = "done"

\* C7: validate on short or malformed input. A well-formed string of length 1
\* fails with InvalidLength("string must be longer than 1 character"); a
\* malformed string of any length fails with its validator error, never
\* InvalidLength.
C7_ValidateErrors ==
    op = "validate" =>
        /\ (WellFormed(value) /\ Len(value) = 1) => result = SingleChar
        /\ FirstViolated(value) # "none" =>
              /\ result = Err(FirstViolated(value), "")
              /\ result.err # "InvalidLength"

\* C7 witness: the one-character string "-" is a NegativeNumber
C7_Witness ==
    /\ op = "validate"
    /\ value = <<"-">>
    /\ result = Err("NegativeNumber", "")

\* C8 as claimed: with c the check digit of a well-formed d, the weighted sum
\* over d followed by c, the rightmost digit of that full string doubled and
\* the weight alternating leftward, is 0 modulo 10.
C8_AsClaimed ==
    (op = "generate" /\ WellFormed(value) /\ options = OptChecksumOnly) =>
        WeightedSum(value \o result.val, TRUE) % 10 = 0

\* C8 amended: the weighted sum over d followed by c, the rightmost digit of
\* that full string (the check digit) taken unchanged, the digit left of it
\* doubled and the weight alternating leftward, is 0 modulo 10.
C8_CheckDigit ==
    (op = "generate" /\ WellFormed(value) /\ options = OptChecksumOnly) =>
        /\ result.tag = "Ok"
        /\ WeightedSum(value \o result.val, FALSE) % 10 = 0

\* C8 witness: the check digit 3 of "7992739871"
C8_Witness ==
    /\ op = "generate" /\ options = OptChecksumOnly
    /\ value = Str(<<7, 9, 9, 2, 7, 3, 9, 8, 7, 1>>)
    /\ result = Ok(<<"3">>)

\* C9: the checksum engine against the reference. For a well-formed d,
\* generate_checksum gives (10 - (S mod 10)) mod 10, S the sum of the digits
\* read right to left, the rightmost and every second digit after it doubled
\* (minus 9 when 10 or more); the result is in 0..9.
C9_Reference ==
    (op = "generate" /\ WellFormed(value)) =>
        /\ generate_checksum(value) = ReferenceDigit(value)
        /\ generate_checksum(value) \in 0..9
        /\ value = Str(<<7, 9, 9, 2, 7, 3, 9, 8, 7, 1>>) => generate_checksum(value) = 3
        /\ value = <<"1">> => generate_checksum(value) = 8
        /\ value = <<"0">> => generate_checksum(value) = 0
        /\ value = <<"1", "2", "3">> => generate_checksum(value) = 0

\* C9 witness: the check digit 7 of "123456789"
C9_Witness ==
    /\ op = "generate" /\ options = OptChecksumOnly
    /\ value = Str(<<1, 2, 3, 4, 5, 6, 7, 8, 9>>)
    /\ result = Ok(<<"7">>)

\* C10: random's loop is not a rejection loop. Whatever digits the first
\* iteration draws, its generate succeeds and its validate is Ok(true), so
\* random returns at the end of the first iteration: the loop body is never
\* entered a second time, and a call that has not returned is at the top of
\* its first iteration or inside it with at most n - 1 digits pushed.
C10_FirstIteration ==
    op = "random" =>
        /\ iterations <= 1
        /\ pc = "loop" => iterations = 0
        /\ pc = "draw" => Len(random_buf) <= draw_count(length_as_int)
        /\ (pc = "draw" /\ Len(random_buf) = draw_count(length_as_int))
              => /\ generate(random_buf, OptNone).tag = "Ok"
                 /\ validate(generate(random_buf, OptNone).val) = Ok(TRUE)
        /\ pc \in {"loop", "draw", "done"}
        /\ (pc = "done" /\ InRange(value)) => (result.tag = "Ok" /\ iterations = 1)

\* C10 witness: an all-zero payload was returned at the end of the first
\* iteration
C10_Witness ==
    /\ op = "random" /\ pc = "done"
    /\ iterations = 1
    /\ random_buf = <<"0", "0", "0">>
    /\ result = Ok(<<"0", "0", "0", "0">>)

====
